---- MODULE Spec2Model ----
(***************************************************************************)
(* Model of package ask (lukaszraczylo/ask): the path tokenizer, the token *)
(* cache, the resolution walk of For, the dynamic accessors accessMap and  *)
(* accessSlice, the extractors of Answer.  The repository holds three      *)
(* revisions of ask.go:                                                    *)
(*     "ask"   src/ask.go              (tokenMatcher regexp, plain map)    *)
(*     "p001"  src/unnamed/part_001    (tokenizePath strips brackets)      *)
(*     "p000"  src/unnamed/part_000    (tokenizePath keeps brackets)       *)
(* Each revision is modelled by its own definitions (suffix _ask, _p001,   *)
(* _p000); the state variable build says which revision is linked in.      *)
(*                                                                         *)
(* A Go string is a sequence of one-character strings.  A Go value of type *)
(* interface{} is a record whose field t is its dynamic type.              *)
(***************************************************************************)
EXTENDS Integers, Sequences, FiniteSets, TLC

----------------------------------------------------------------------------
(* Bounds of the model *)

\* every path of at most MaxLen characters over Alphabet is an input
MaxLen == 2

\* number of calls of For in one run
MaxCalls == 2

\* number of goroutines that call For concurrently
MaxThreads == 2

\* an Answer has at most MaxTaken extractor calls made on it
MaxTaken == 1

----------------------------------------------------------------------------
(* Strings *)

Alphabet == {"a", ".", "[", "]", "0", " "}

Digits == {"0", "1", "2", "3", "4", "5", "6", "7", "8", "9"}

\* bytes <= ' ' that occur in the inputs
CtlOrSpace == {" ", "\t"}

\* unicode.IsSpace on the characters that occur in the inputs
UnicodeSpace == {" ", "\t"}

DigitVal(ch) ==
    CASE ch = "0" -> 0 [] ch = "1" -> 1 [] ch = "2" -> 2 [] ch = "3" -> 3
      [] ch = "4" -> 4 [] ch = "5" -> 5 [] ch = "6" -> 6 [] ch = "7" -> 7
      [] ch = "8" -> 8 [] ch = "9" -> 9

AllDigits(s) == \A i \in 1..Len(s) : s[i] \in Digits

RECURSIVE DecVal(_)
DecVal(s) == IF s = <<>> THEN 0
             ELSE 10 * DecVal(SubSeq(s, 1, Len(s) - 1)) + DigitVal(s[Len(s)])

\* strconv.Atoi: an optional sign, then one or more decimal digits
AtoiOk(s) ==
    LET body == IF s # <<>> /\ s[1] \in {"+", "-"} THEN Tail(s) ELSE s
    IN  body # <<>> /\ AllDigits(body)

Atoi(s) ==
    IF s # <<>> /\ s[1] = "-" THEN 0 - DecVal(Tail(s))
    ELSE IF s # <<>> /\ s[1] = "+" THEN DecVal(Tail(s))
    ELSE DecVal(s)

HasPrefix(s, p) == Len(s) >= Len(p) /\ SubSeq(s, 1, Len(p)) = p

HasSuffix(s, p) == Len(s) >= Len(p) /\ SubSeq(s, Len(s) - Len(p) + 1, Len(s)) = p

\* the characters of s outside the leading and trailing run of characters in ws
RECURSIVE TrimLeft(_, _)
TrimLeft(s, ws) == IF s # <<>> /\ s[1] \in ws THEN TrimLeft(Tail(s), ws) ELSE s

RECURSIVE TrimRight(_, _)
TrimRight(s, ws) ==
    IF s # <<>> /\ s[Len(s)] \in ws THEN TrimRight(SubSeq(s, 1, Len(s) - 1), ws)
    ELSE s

\* strings.TrimSpace
TrimSpace(s) == TrimRight(TrimLeft(s, UnicodeSpace), UnicodeSpace)

\* strings.Split(s, sep) for a one-character sep: never empty, keeps empty parts
RECURSIVE Split(_, _)
Split(s, sep) ==
    IF \E i \in 1..Len(s) : s[i] = sep
    THEN LET i == CHOOSE k \in 1..Len(s) :
                     s[k] = sep /\ \A j \in 1..(k - 1) : s[j] # sep
         IN  <<SubSeq(s, 1, i - 1)>> \o Split(SubSeq(s, i + 1, Len(s)), sep)
    ELSE <<s>>

----------------------------------------------------------------------------
(* Tokenizers *)

\* part_000: trimSpaceASCII
trimSpaceASCII(s) == TrimRight(TrimLeft(s, CtlOrSpace), CtlOrSpace)

\* part_000: the loop of tokenizePath from position i, with the tokens so
\* far, the builder's content and the inBracket flag
RECURSIVE tokenizeLoop_p000(_, _, _, _, _)
tokenizeLoop_p000(path, i, tokens, token, inBracket) ==
    IF i > Len(path)
    THEN IF Len(token) > 0 THEN Append(tokens, trimSpaceASCII(token)) ELSE tokens
    ELSE LET ch == path[i] IN
         CASE ch \in CtlOrSpace ->
                tokenizeLoop_p000(path, i + 1, tokens,
                                  IF inBracket THEN Append(token, ch) ELSE token,
                                  inBracket)
           [] ch = "." ->
                IF inBracket
                THEN tokenizeLoop_p000(path, i + 1, tokens, Append(token, ch), inBracket)
                ELSE IF Len(token) > 0
                THEN tokenizeLoop_p000(path, i + 1,
                                       Append(tokens, trimSpaceASCII(token)), <<>>,
                                       inBracket)
                ELSE tokenizeLoop_p000(path, i + 1, tokens, token, inBracket)
           [] ch = "[" ->
                tokenizeLoop_p000(path, i + 1,
                                  IF Len(token) > 0
                                  THEN Append(tokens, trimSpaceASCII(token))
                                  ELSE tokens,
                                  <<ch>>, TRUE)
           [] ch = "]" ->
                IF inBracket
                THEN tokenizeLoop_p000(path, i + 1,
                                       Append(tokens, trimSpaceASCII(Append(token, ch))),
                                       <<>>, FALSE)
                ELSE tokenizeLoop_p000(path, i + 1, tokens, Append(token, ch), inBracket)
           [] OTHER ->
                tokenizeLoop_p000(path, i + 1, tokens, Append(token, ch), inBracket)

tokenizePath_p000(path) == tokenizeLoop_p000(path, 1, <<>>, <<>>, FALSE)

\* part_001: first position >= i of path holding a character of stop, or
\* Len(path) + 1
RECURSIVE scanTo(_, _, _)
scanTo(path, i, stop) ==
    IF i <= Len(path) /\ path[i] \notin stop THEN scanTo(path, i + 1, stop) ELSE i

\* part_001: first position >= i of path not holding a space
RECURSIVE skipSpaces(_, _)
skipSpaces(path, i) ==
    IF i <= Len(path) /\ path[i] = " " THEN skipSpaces(path, i + 1) ELSE i

\* part_001: the path[start:end] kept by tokenizePath (0-based half-open in
\* the source; here the characters start..end-1), without its trailing spaces
trimTrailing_p001(path, start, end) ==
    TrimRight(SubSeq(path, start, end - 1), {" "})

RECURSIVE tokenizeLoop_p001(_, _, _)
tokenizeLoop_p001(path, i, tokens) ==
    IF i > Len(path) THEN tokens
    ELSE CASE path[i] = "." -> tokenizeLoop_p001(path, i + 1, tokens)
           [] path[i] = "[" ->
                LET start == skipSpaces(path, i + 1)
                    end   == scanTo(path, start, {"]"})
                    token == trimTrailing_p001(path, start, end)
                    next  == IF end <= Len(path) /\ path[end] = "]"
                             THEN end + 1 ELSE end
                IN  tokenizeLoop_p001(path, next,
                                      IF token # <<>> THEN Append(tokens, token)
                                      ELSE tokens)
           [] OTHER ->
                LET end   == scanTo(path, i, {".", "["})
                    token == TrimLeft(trimTrailing_p001(path, i, end), {" "})
                IN  tokenizeLoop_p001(path, end,
                                      IF token # <<>> THEN Append(tokens, token)
                                      ELSE tokens)

tokenizePath_p001(path) == tokenizeLoop_p001(path, 1, <<>>)

\* ask.go: tokenMatcher = ([^[]+)?(?:\[(\d+)])? applied by FindStringSubmatch:
\* group 1 is the longest prefix free of "[", group 2 the digits of a
\* "[digits]" that follows it at once; either is empty when it does not match
tokenMatcher(s) ==
    LET cut  == scanTo(s, 1, {"["})
        rest == SubSeq(s, cut, Len(s))
        close == scanTo(rest, 1, {"]"})
        digits == SubSeq(rest, 2, close - 1)
        index == IF rest # <<>> /\ close <= Len(rest) /\ digits # <<>>
                    /\ AllDigits(digits)
                 THEN digits ELSE <<>>
    IN  << SubSeq(s, 1, cut - 1)
             \o (IF index # <<>> THEN <<"[">> \o index \o <<"]">> ELSE <<>>),
           SubSeq(s, 1, cut - 1),
           index >>

----------------------------------------------------------------------------
(* Go values held in an interface{} *)

Nil == [t |-> "nil"]

GoStr(s) == [t |-> "string", s |-> s]

GoInt(i) == [t |-> "int", i |-> i]

\* a map value of dynamic type t: m is a function from its keys.  The keys of
\* a string-keyed map are strings, of an int-keyed map integers, of a
\* map[interface{}]interface{} Go values
MapOf(t, m) == [t |-> t, m |-> m]

\* a slice or array value of dynamic type t with the elements e, each as the
\* Go value that reading it into an interface{} gives
SliceOf(t, e) == [t |-> t, e |-> e]

MapTypes == {"map[string]interface{}", "map[string]string", "map[string]int",
             "map[int]string", "map[interface{}]interface{}", "M"}

SliceTypes == {"[]interface{}", "[]int", "[][]int", "L"}

ArrayTypes == {"[2]int"}

\* reflect.Value.Kind
Kind(v) == CASE v.t \in MapTypes   -> "Map"
             [] v.t \in SliceTypes -> "Slice"
             [] v.t \in ArrayTypes -> "Array"
             [] v.t = "nil"        -> "Invalid"
             [] OTHER              -> v.t

\* the key type of a map type
KeyType(t) == CASE t = "map[int]string"              -> "int"
                [] t = "map[interface{}]interface{}" -> "interface{}"
                [] OTHER                             -> "string"

\* the underlying type of a type: M is declared as map[string]interface{},
\* L as []interface{}
Underlying(t) == CASE t = "M" -> "map[string]interface{}"
                   [] t = "L" -> "[]interface{}"
                   [] OTHER   -> t

\* the zero value of the element type of a map type, as read from m[key]
\* when key is missing
ZeroElem(t) == CASE t = "map[string]string" -> GoStr(<<>>)
                 [] t = "map[string]int"    -> GoInt(0)
                 [] OTHER                   -> Nil

\* the outcome of a call that panics instead of returning
Panic == [t |-> "panic"]

\* m[key] on a Go map: the entry, or the element type's zero value
GoIndex(v, key) == IF key \in DOMAIN v.m THEN v.m[key] ELSE ZeroElem(v.t)

\* reflect.Value.MapIndex(reflect.ValueOf(key)) for a string key, then
\* Interface() if valid: panics unless a string is assignable to the key type
MapIndex(v, key) ==
    CASE KeyType(v.t) = "string" ->
           IF key \in DOMAIN v.m THEN v.m[key] ELSE Nil
      [] KeyType(v.t) = "interface{}" ->
           IF GoStr(key) \in DOMAIN v.m THEN v.m[GoStr(key)] ELSE Nil
      [] OTHER -> Panic

----------------------------------------------------------------------------
(* Dynamic accessors *)

\* part_000 lines 180-188, part_001 lines 59-66: the reflective fallback of
\* accessMap
accessMapReflect(source, key) ==
    IF Kind(source) = "Map" THEN MapIndex(source, key) ELSE Nil

\* part_000 lines 192-198, part_001 lines 86-91: the reflective accessSlice
accessSliceReflect(source, index) ==
    IF Kind(source) \in {"Slice", "Array"} /\ index >= 0 /\ index < Len(source.e)
    THEN source.e[index + 1]
    ELSE Nil

accessMap_p000(source, key) ==
    CASE source.t \in {"map[string]interface{}", "map[string]string",
                       "map[string]int"} -> GoIndex(source, key)
      [] OTHER -> accessMapReflect(source, key)

accessSlice_p000(source, index) == accessSliceReflect(source, index)

accessMap_p001(source, key) ==
    CASE source.t \in {"map[string]interface{}", "map[string]string",
                       "map[string]int"} -> GoIndex(source, key)
      [] source.t = "map[interface{}]interface{}" -> GoIndex(source, GoStr(key))
      [] OTHER -> accessMapReflect(source, key)

accessSlice_p001(source, index) ==
    CASE source.t \in {"[]interface{}", "[]int", "[][]int"} ->
           IF index >= 0 /\ index < Len(source.e) THEN source.e[index + 1] ELSE Nil
      [] OTHER -> accessSliceReflect(source, index)

\* ask.go: val.IsValid() && val.Type().ConvertibleTo(mapType)
accessMap_ask(source, key) ==
    IF Kind(source) # "Invalid" /\ Underlying(source.t) = "map[string]interface{}"
    THEN GoIndex(source, key)
    ELSE Nil

\* ask.go: the index text is converted inside accessSlice, the error dropped
accessSlice_ask(source, indexStr) ==
    IF Kind(source) # "Invalid" /\ Underlying(source.t) = "[]interface{}"
       /\ Atoi(indexStr) >= 0 /\ Atoi(indexStr) < Len(source.e)
    THEN source.e[Atoi(indexStr) + 1]
    ELSE Nil

----------------------------------------------------------------------------
(* The walk of For *)

\* one access made by the walk: the accessor called (or "reject" for a token
\* that For refuses), the value it was called on, the key or index it was
\* given (ask.go gives accessSlice the index as text) and its result
Applied(op, on, arg, out) == [op |-> op, on |-> on, arg |-> arg, out |-> out]

\* what For has when the loop is left: the Answer's value, whether the call
\* panicked instead of returning, and the accesses made
Outcome(value, panicked, trace) ==
    [value |-> value, panicked |-> panicked, trace |-> trace]

\* a loop that goes on from the value it had when an access finds nothing
RECURSIVE walk_skipNull(_, _, _, _)
walk_skipNull(parts, i, current, trace) ==
    IF i > Len(parts) THEN Outcome(current, FALSE, trace)
    ELSE LET next == accessMap_p000(current, parts[i])
         IN  walk_skipNull(parts, i + 1,
                           IF next \in {Nil, Panic} THEN current ELSE next,
                           Append(trace, Applied("accessMap", current, parts[i], next)))

\* part_000 For, lines 149-167: the loop from token i on
RECURSIVE walk_p000(_, _, _, _)
walk_p000(parts, i, current, trace) ==
    IF i > Len(parts) THEN Outcome(current, FALSE, trace)
    ELSE LET token == parts[i]
             isIndex == HasPrefix(token, <<"[">>) /\ HasSuffix(token, <<"]">>)
             indexStr == TrimSpace(SubSeq(token, 2, Len(token) - 1))
         IN  IF isIndex /\ ~AtoiOk(indexStr)
             THEN Outcome(Nil, FALSE,
                          Append(trace, Applied("reject", current, token, Nil)))
             ELSE LET next == IF isIndex
                              THEN accessSlice_p000(current, Atoi(indexStr))
                              ELSE accessMap_p000(current, token)
                      step == IF isIndex
                              THEN Applied("accessSlice", current, Atoi(indexStr), next)
                              ELSE Applied("accessMap", current, token, next)
                  IN  IF next = Panic THEN Outcome(Nil, TRUE, Append(trace, step))
                      ELSE IF next = Nil THEN Outcome(Nil, FALSE, Append(trace, step))
                      ELSE walk_p000(parts, i + 1, next, Append(trace, step))

\* part_001 For, lines 32-43
RECURSIVE walk_p001(_, _, _, _)
walk_p001(parts, i, current, trace) ==
    IF i > Len(parts) THEN Outcome(current, FALSE, trace)
    ELSE LET token == parts[i]
             isIndex == AtoiOk(token)
             next == IF isIndex
                     THEN accessSlice_p001(current, Atoi(token))
                     ELSE accessMap_p001(current, token)
             step == IF isIndex
                     THEN Applied("accessSlice", current, Atoi(token), next)
                     ELSE Applied("accessMap", current, token, next)
         IN  IF next = Panic THEN Outcome(Nil, TRUE, Append(trace, step))
             ELSE IF next = Nil THEN Outcome(Nil, FALSE, Append(trace, step))
             ELSE walk_p001(parts, i + 1, next, Append(trace, step))

\* ask.go For, lines 34-53: each part gives at most one accessMap (group 1)
\* followed by at most one accessSlice (group 2)
RECURSIVE walk_ask(_, _, _, _)
walk_ask(parts, i, current, trace) ==
    IF i > Len(parts) THEN Outcome(current, FALSE, trace)
    ELSE LET match == tokenMatcher(TrimSpace(parts[i]))
             afterKey == IF match[2] # <<>> THEN accessMap_ask(current, match[2])
                         ELSE current
             trace1 == IF match[2] # <<>>
                       THEN Append(trace, Applied("accessMap", current, match[2], afterKey))
                       ELSE trace
             afterIndex == IF match[3] # <<>> THEN accessSlice_ask(afterKey, match[3])
                           ELSE afterKey
             trace2 == IF match[3] # <<>>
                       THEN Append(trace1,
                                   Applied("accessSlice", afterKey, match[3], afterIndex))
                       ELSE trace1
         IN  IF match[2] # <<>> /\ afterKey = Nil THEN Outcome(Nil, FALSE, trace1)
             ELSE IF match[3] # <<>> /\ afterIndex = Nil THEN Outcome(Nil, FALSE, trace2)
             ELSE walk_ask(parts, i + 1, afterIndex, trace2)

Builds == {"ask", "p001", "p000"}

\* every build splitting the path at the dots and nothing more: the empty
\* path then gives one empty part
tokenize_splitOnly(b, p) == Split(p, ".")

\* the parts of the path after its last dot only
tokenize_lastSegment(b, p) ==
    LET parts == Split(p, ".") IN <<parts[Len(parts)]>>

\* what a build computes for a path that is not in splitCache
tokenize(b, p) == CASE b = "ask"  -> Split(p, ".")
                    [] b = "p001" -> tokenizePath_p001(p)
                    [] b = "p000" -> tokenizePath_p000(p)

\* the loop of For over the parts taken from splitCache
walk(b, src, parts) == CASE b = "ask"  -> walk_ask(parts, 1, src, <<>>)
                         [] b = "p001" -> walk_p001(parts, 1, src, <<>>)
                         [] b = "p000" -> walk_p000(parts, 1, src, <<>>)

\* ask.go For, lines 34-49: the tokens For derives from the cached parts, a
\* key for group 1 and a bracketed index for group 2 of each part
RECURSIVE tokens_ask(_)
tokens_ask(parts) ==
    IF parts = <<>> THEN <<>>
    ELSE LET match == tokenMatcher(TrimSpace(Head(parts)))
         IN  (IF match[2] # <<>> THEN <<match[2]>> ELSE <<>>)
             \o (IF match[3] # <<>> THEN << <<"[">> \o match[3] \o <<"]">> >>
                 ELSE <<>>)
             \o tokens_ask(Tail(parts))

\* the tokens a build walks for the parts it caches
tokens(b, parts) == IF b = "ask" THEN tokens_ask(parts) ELSE parts

\* accessMap and accessSlice of a build
accessMap(b, v, key) == CASE b = "ask"  -> accessMap_ask(v, key)
                          [] b = "p001" -> accessMap_p001(v, key)
                          [] b = "p000" -> accessMap_p000(v, key)

accessSlice(b, v, index) == CASE b = "ask"  -> accessSlice_ask(v, index)
                              [] b = "p001" -> accessSlice_p001(v, index)
                              [] b = "p000" -> accessSlice_p000(v, index)

----------------------------------------------------------------------------
(* Numbers and booleans held in an interface{} *)

\* the bits the model gives a 64-bit integer: int, int64, uint and uint64 have
\* WordBits bits, the 32-, 16- and 8-bit types one, two and three bits fewer
WordBits == 5

RECURSIVE Pow2(_)
Pow2(n) == IF n = 0 THEN 1 ELSE 2 * Pow2(n - 1)

SignedTypes == {"int", "int8", "int16", "int32", "int64"}

UnsignedTypes == {"uint", "uint8", "uint16", "uint32", "uint64"}

FloatTypes == {"float32", "float64"}

Bits(t) == CASE t \in {"int8", "uint8"}   -> WordBits - 3
             [] t \in {"int16", "uint16"} -> WordBits - 2
             [] t \in {"int32", "uint32"} -> WordBits - 1
             [] OTHER                     -> WordBits

\* math.MaxInt64, math.MinInt64, math.MaxUint64
MaxInt64 == Pow2(WordBits - 1) - 1

MinInt64 == -Pow2(WordBits - 1)

MaxUint64 == Pow2(WordBits) - 1

\* the least and the greatest value of an integer type
MinOf(t) == IF t \in SignedTypes THEN -Pow2(Bits(t) - 1) ELSE 0

MaxOf(t) == IF t \in SignedTypes THEN Pow2(Bits(t) - 1) - 1 ELSE Pow2(Bits(t)) - 1

\* an integer value of type t
GoNum(t, i) == [t |-> t, i |-> i]

GoBool(b) == [t |-> "bool", b |-> b]

\* a floating-point value of type t: h is twice the value, so that halves are
\* values
GoFloat(t, h) == [t |-> t, h |-> h]

RECURSIVE BitLen(_)
BitLen(n) == IF n = 0 THEN 0 ELSE 1 + BitLen(n \div 2)

\* the bits of the mantissa of a floating-point type: fewer than an int64
\* has, and fewer in a float32 than in a float64
Mantissa(t) == IF t = "float32" THEN WordBits - 3 ELSE WordBits - 2

\* the natural number n rounded to mant significant bits, to the nearest and
\* on a tie to the even mantissa
RoundNat(n, mant) ==
    LET q  == Pow2(IF BitLen(n) > mant THEN BitLen(n) - mant ELSE 0)
        lo == (n \div q) * q
        hi == lo + q
    IN  IF n - lo < hi - n THEN lo
        ELSE IF n - lo > hi - n THEN hi
        ELSE IF (lo \div q) % 2 = 0 THEN lo ELSE hi

\* float64(n) and float32(n) for an integer n, as twice the value:
\* float64(math.MaxInt64) is 1<<63 and float64(math.MaxUint64) is 1<<64
ToFloat(t, n) ==
    2 * (IF n >= 0 THEN RoundNat(n, Mantissa(t)) ELSE -RoundNat(-n, Mantissa(t)))

\* the integer part of a floating-point value, truncated toward zero
Trunc(h) == IF h >= 0 THEN h \div 2 ELSE -((-h) \div 2)

\* int64(f) for a floating-point f: the truncation when an int64 can hold it,
\* otherwise a result the implementation chooses (the least int64 where the
\* conversion instruction signals the overflow so, the nearest int64 where
\* it saturates)
FloatToInt64(h) ==
    IF Trunc(h) >= MinInt64 /\ Trunc(h) <= MaxInt64 THEN {Trunc(h)}
    ELSE IF h > 0 THEN {MinInt64, MaxInt64} ELSE {MinInt64}

\* uint64(f) for a floating-point f >= 0: the truncation when a uint64 can
\* hold it, otherwise a result the implementation chooses (the greatest
\* uint64 where it saturates, 1<<63 or 0 where it does not)
FloatToUint64(h) ==
    IF Trunc(h) <= MaxUint64 THEN {Trunc(h)}
    ELSE {MaxUint64, Pow2(WordBits - 1), 0}

\* int64(u) for an unsigned u: the same bits read as a signed integer
UintToInt64(u) == IF u > MaxInt64 THEN u - Pow2(WordBits) ELSE u

----------------------------------------------------------------------------
(* The extractors of Answer.  Each gives the set of the (value, ok) pairs   *)
(* the call can return: one pair, unless a conversion leaves the result to  *)
(* the implementation.                                                      *)

\* a pair an extractor returns; made says whether val is a container the
\* extractor allocated itself (make) rather than one it was given
Res(val, ok) == [val |-> val, ok |-> ok, made |-> FALSE]

\* (result, true) for a result the extractor allocated and filled
Made(val) == [val |-> val, ok |-> TRUE, made |-> TRUE]

\* a fallback that forgets the default
Default_nil(d) == {[val |-> Nil, ok |-> FALSE, made |-> FALSE]}

\* the (def, false) every extractor falls back to
Default(d) == {Res(d, FALSE)}

\* ask.go String: res, ok := a.value.(string)
String_ask(v, d) == IF v.t = "string" THEN {Res(v, TRUE)} ELSE Default(d)

\* part_001 and part_000 String: the nil test, then the type assertion
String_p001(v, d) ==
    IF v = Nil THEN Default(d)
    ELSE IF v.t = "string" THEN {Res(v, TRUE)} ELSE Default(d)

\* a String that formats whatever it finds
String_format(v, d) ==
    IF v = Nil THEN Default(d) ELSE {Res(GoStr(<<"1">>), TRUE)}

String_p000(v, d) ==
    IF v = Nil THEN Default(d)
    ELSE IF v.t = "string" THEN {Res(v, TRUE)} ELSE Default(d)

Bool_ask(v, d) == IF v.t = "bool" THEN {Res(v, TRUE)} ELSE Default(d)

Bool_p001(v, d) ==
    IF v = Nil THEN Default(d)
    ELSE IF v.t = "bool" THEN {Res(v, TRUE)} ELSE Default(d)

Bool_p000(v, d) ==
    IF v = Nil THEN Default(d)
    ELSE IF v.t = "bool" THEN {Res(v, TRUE)} ELSE Default(d)

\* the int64 and uint64 an extractor returns
Int64(i) == GoNum("int64", i)

Uint64(i) == GoNum("uint64", i)

\* ask.go Int: uint and uint64 are compared with math.MaxInt64, a float with
\* float(math.MinInt64) and float(math.MaxInt64)
Int_ask(v, d) ==
    CASE v.t \in SignedTypes -> {Res(Int64(v.i), TRUE)}
      [] v.t \in {"uint", "uint64"} ->
           IF v.i <= MaxInt64 THEN {Res(Int64(v.i), TRUE)} ELSE Default(d)
      [] v.t \in {"uint8", "uint16", "uint32"} -> {Res(Int64(v.i), TRUE)}
      [] v.t \in FloatTypes ->
           IF v.h >= ToFloat(v.t, MinInt64) /\ v.h <= ToFloat(v.t, MaxInt64)
           THEN {Res(Int64(x), TRUE) : x \in FloatToInt64(v.h)}
           ELSE Default(d)
      [] OTHER -> Default(d)

\* part_001 Int: only uint64 is compared with the greatest int64; uint, the
\* narrower unsigned types and the floats are converted as they are
Int_p001(v, d) ==
    CASE v = Nil -> Default(d)
      [] v.t \in SignedTypes -> {Res(Int64(v.i), TRUE)}
      [] v.t \in {"uint", "uint8", "uint16", "uint32"} ->
           {Res(Int64(UintToInt64(v.i)), TRUE)}
      [] v.t = "uint64" ->
           IF v.i <= MaxInt64 THEN {Res(Int64(v.i), TRUE)} ELSE Default(d)
      [] v.t \in FloatTypes -> {Res(Int64(x), TRUE) : x \in FloatToInt64(v.h)}
      [] OTHER -> Default(d)

\* part_000 Int: every unsigned type is compared with the greatest int64, the
\* floats are converted as they are
Int_p000(v, d) ==
    CASE v = Nil -> Default(d)
      [] v.t \in SignedTypes -> {Res(Int64(v.i), TRUE)}
      [] v.t \in UnsignedTypes ->
           IF v.i <= MaxInt64 THEN {Res(Int64(UintToInt64(v.i)), TRUE)}
           ELSE Default(d)
      [] v.t \in FloatTypes -> {Res(Int64(x), TRUE) : x \in FloatToInt64(v.h)}
      [] OTHER -> Default(d)

\* ask.go Uint: a float above float(math.MaxUint64) gives math.MaxUint64
Uint_ask(v, d) ==
    CASE v.t \in SignedTypes ->
           IF v.i >= 0 THEN {Res(Uint64(v.i), TRUE)} ELSE Default(d)
      [] v.t \in UnsignedTypes -> {Res(Uint64(v.i), TRUE)}
      [] v.t \in FloatTypes ->
           IF v.h >= 0
           THEN IF v.h > ToFloat(v.t, MaxUint64)
                THEN {Res(Uint64(MaxUint64), TRUE)}
                ELSE {Res(Uint64(x), TRUE) : x \in FloatToUint64(v.h)}
           ELSE Default(d)
      [] OTHER -> Default(d)

\* part_001 and part_000 Uint: a float that is not negative is converted as
\* it is
Uint_p001(v, d) ==
    CASE v = Nil -> Default(d)
      [] v.t \in SignedTypes ->
           IF v.i >= 0 THEN {Res(Uint64(v.i), TRUE)} ELSE Default(d)
      [] v.t \in UnsignedTypes -> {Res(Uint64(v.i), TRUE)}
      [] v.t \in FloatTypes ->
           IF v.h >= 0 THEN {Res(Uint64(x), TRUE) : x \in FloatToUint64(v.h)}
           ELSE Default(d)
      [] OTHER -> Default(d)

\* a Uint that converts a signed integer as it is
Uint_unchecked(v, d) ==
    IF v.t \in SignedTypes THEN {Res(Uint64(v.i % Pow2(WordBits)), TRUE)}
    ELSE Default(d)

Uint_p000(v, d) ==
    CASE v = Nil -> Default(d)
      [] v.t \in SignedTypes ->
           IF v.i >= 0 THEN {Res(Uint64(v.i), TRUE)} ELSE Default(d)
      [] v.t \in UnsignedTypes -> {Res(Uint64(v.i), TRUE)}
      [] v.t \in FloatTypes ->
           IF v.h >= 0 THEN {Res(Uint64(x), TRUE) : x \in FloatToUint64(v.h)}
           ELSE Default(d)
      [] OTHER -> Default(d)

\* Float: float64(v) of every number; the three revisions differ in nothing
\* but the nil test
Float_ask(v, d) ==
    CASE v.t \in SignedTypes \cup UnsignedTypes ->
           {Res(GoFloat("float64", ToFloat("float64", v.i)), TRUE)}
      [] v.t \in FloatTypes -> {Res(GoFloat("float64", v.h), TRUE)}
      [] OTHER -> Default(d)

Float_p001(v, d) == IF v = Nil THEN Default(d) ELSE Float_ask(v, d)

Float_p000(v, d) == IF v = Nil THEN Default(d) ELSE Float_ask(v, d)

\* ask.go Slice: val.IsValid() && val.CanConvert(sliceType)
Slice_ask(v, d) ==
    IF Kind(v) # "Invalid" /\ Underlying(v.t) = "[]interface{}"
    THEN {Res(SliceOf("[]interface{}", v.e), TRUE)}
    ELSE Default(d)

\* part_001 and part_000 Slice: the []interface{} itself, or a copy of any
\* other slice or array, element by element
Slice_p001(v, d) ==
    IF v = Nil THEN Default(d)
    ELSE IF v.t = "[]interface{}" THEN {Res(v, TRUE)}
    ELSE IF Kind(v) \in {"Slice", "Array"}
         THEN {Made(SliceOf("[]interface{}", [x \in 1..Len(v.e) |-> v.e[x]]))}
         ELSE Default(d)

\* a Slice that converts every slice or array in place of copying it
Slice_convert(v, d) ==
    IF v = Nil THEN Default(d)
    ELSE IF Kind(v) \in {"Slice", "Array"}
         THEN {Res(SliceOf("[]interface{}", v.e), TRUE)}
         ELSE Default(d)

Slice_p000(v, d) ==
    IF v = Nil THEN Default(d)
    ELSE IF v.t = "[]interface{}" THEN {Res(v, TRUE)}
    ELSE IF Kind(v) \in {"Slice", "Array"}
         THEN {Made(SliceOf("[]interface{}", [x \in 1..Len(v.e) |-> v.e[x]]))}
         ELSE Default(d)

\* the entries of a map whose key is a string, as the loop over MapRange
\* collects them
StringKeyed(v) ==
    CASE KeyType(v.t) = "string" -> v.m
      [] KeyType(v.t) = "interface{}" ->
           [k \in {x.s : x \in {y \in DOMAIN v.m : y.t = "string"}}
               |-> v.m[GoStr(k)]]
      [] OTHER -> <<>>

\* ask.go Map: val.IsValid() && val.CanConvert(mapType)
Map_ask(v, d) ==
    IF Kind(v) # "Invalid" /\ Underlying(v.t) = "map[string]interface{}"
    THEN {Res(MapOf("map[string]interface{}", v.m), TRUE)}
    ELSE Default(d)

\* part_001 and part_000 Map: the map[string]interface{} itself, or a new
\* one holding the entries of any other map whose key is a string
Map_p001(v, d) ==
    IF v = Nil THEN Default(d)
    ELSE IF v.t = "map[string]interface{}" THEN {Res(v, TRUE)}
    ELSE IF Kind(v) = "Map"
         THEN {Made(MapOf("map[string]interface{}", StringKeyed(v)))}
         ELSE Default(d)

Map_p000(v, d) ==
    IF v = Nil THEN Default(d)
    ELSE IF v.t = "map[string]interface{}" THEN {Res(v, TRUE)}
    ELSE IF Kind(v) = "Map"
         THEN {Made(MapOf("map[string]interface{}", StringKeyed(v)))}
         ELSE Default(d)

Extractors == {"String", "Bool", "Int", "Uint", "Float", "Slice", "Map"}

\* the extractor named f of a build
extract(b, f, v, d) ==
    CASE f = "String" -> (CASE b = "ask"  -> String_ask(v, d)
                            [] b = "p001" -> String_p001(v, d)
                            [] b = "p000" -> String_p000(v, d))
      [] f = "Bool"   -> (CASE b = "ask"  -> Bool_ask(v, d)
                            [] b = "p001" -> Bool_p001(v, d)
                            [] b = "p000" -> Bool_p000(v, d))
      [] f = "Int"    -> (CASE b = "ask"  -> Int_ask(v, d)
                            [] b = "p001" -> Int_p001(v, d)
                            [] b = "p000" -> Int_p000(v, d))
      [] f = "Uint"   -> (CASE b = "ask"  -> Uint_ask(v, d)
                            [] b = "p001" -> Uint_p001(v, d)
                            [] b = "p000" -> Uint_p000(v, d))
      [] f = "Float"  -> (CASE b = "ask"  -> Float_ask(v, d)
                            [] b = "p001" -> Float_p001(v, d)
                            [] b = "p000" -> Float_p000(v, d))
      [] f = "Slice"  -> (CASE b = "ask"  -> Slice_ask(v, d)
                            [] b = "p001" -> Slice_p001(v, d)
                            [] b = "p000" -> Slice_p000(v, d))
      [] f = "Map"    -> (CASE b = "ask"  -> Map_ask(v, d)
                            [] b = "p001" -> Map_p001(v, d)
                            [] b = "p000" -> Map_p000(v, d))

----------------------------------------------------------------------------
(* Inputs *)

ka == <<"a">>
kb == <<"b">>
k0 == <<"0">>

\* the source of TestFor, with a present null and an all-digit key
RootTest ==
    MapOf("map[string]interface{}",
          (ka :> SliceOf("[]interface{}",
                         << MapOf("map[string]interface{}",
                                  (kb :> GoInt(100)) @@ (ka :> GoInt(7))),
                            GoStr(<<"x">>) >>))
          @@ (kb :> Nil)
          @@ (k0 :> GoStr(<<"z">>)))

\* nested maps whose keys hold digits, brackets and spaces
RootKeys ==
    MapOf("map[string]interface{}",
          (ka :> MapOf("map[string]interface{}",
                       (ka :> GoInt(1)) @@ (k0 :> GoInt(2)) @@ (<<"[", "0">> :> GoInt(3))
                       @@ (kb :> GoInt(4)) @@ (<<"a", " ", "a">> :> GoInt(5))
                       @@ (<<"a", "a">> :> GoInt(6)) @@ (<<"a", " ">> :> GoInt(7))))
          @@ (<<"[", "0">> :> GoInt(8))
          @@ (<<"a", " ", "a">> :> GoInt(9))
          @@ (<<"a", "a">> :> GoInt(10))
          @@ (<<"a", " ">> :> SliceOf("[]interface{}", <<GoInt(11)>>)))

\* the 2D integer grid of TestFor "Access nested slice"
RootGrid ==
    MapOf("map[string]interface{}",
          (ka :> SliceOf("[][]int", << SliceOf("[]int", <<GoInt(1), GoInt(2)>>),
                                       SliceOf("[]int", <<GoInt(3), GoInt(4)>>) >>)))

\* a sequence of sequences, every level a []interface{}
RootNested ==
    MapOf("map[string]interface{}",
          (ka :> SliceOf("[]interface{}",
                         << SliceOf("[]interface{}", <<GoInt(1), GoInt(2)>>),
                            SliceOf("[]interface{}", <<GoInt(3), GoInt(4)>>) >>)))

RootMapString == MapOf("map[string]string", (ka :> GoStr(<<"x">>)))

RootMapInt == MapOf("map[string]int", (ka :> GoInt(5)))

RootIntKeys == MapOf("map[int]string", (0 :> GoStr(<<"x">>)))

RootAnyKeys ==
    MapOf("map[interface{}]interface{}",
          (GoStr(ka) :> GoInt(1)) @@ (GoInt(0) :> GoInt(2)))

RootNamedMap == MapOf("M", (ka :> GoInt(1)))

RootSlice ==
    SliceOf("[]interface{}",
            << GoInt(1), Nil, MapOf("map[string]interface{}", (ka :> GoInt(2))) >>)

RootInts == SliceOf("[]int", <<GoInt(5), GoInt(6)>>)

RootArray == SliceOf("[2]int", <<GoInt(7), GoInt(8)>>)

RootNamedSlice == SliceOf("L", <<GoInt(9)>>)

Roots == {RootTest, RootKeys, RootGrid, RootNested, RootMapString, RootMapInt, RootIntKeys,
          RootAnyKeys, RootNamedMap, RootSlice, RootInts, RootArray,
          RootNamedSlice, GoStr(<<"s">>), GoInt(3), Nil}

\* paths longer than MaxLen: those of the tests, and one per shape of bracket
LongPaths ==
    {<<"a", ".", "a">>, <<"a", ".", "0">>, <<"a", " ", "a">>,
     <<" ", "a", " ">>, <<"a", "[", "0">>, <<"[", "0", "]">>,
     <<"[", "1", "]">>, <<"[", "a", "]">>, <<"a", "[", "]">>,
     <<"a", ".", "b">>, <<"a", ".", ".", "a">>, <<"a", "[", "0", "]">>,
     <<"a", "[", "1", "]">>, <<"a", "[", "a", "]">>, <<"a", " ", "[", "0", "]">>,
     <<"[", "2", "]", ".", "a">>, <<"a", "[", "0", "]", ".", "b">>,
     <<"a", "[", "1", "]", ".", "b">>, <<"b", "[", "1", "]">>,
     <<" ", "a", "[", "0", "]", " ", ".", " ", "b", " ">>,
     <<"a", "[", "0", "]", "[", "0", "]">>, <<"a", "[", "1", "]", "[", "0", "]">>,
     <<"a", "[", "b", "]">>, <<"a", "[", "0", "]", ".", "b", "[", "0", "]">>,
     <<"a", "[", "-", "1", "]">>, <<"a", "[", " ", "0", " ", "]">>,
     <<"\t", "a">>, <<"a", "[", "0", "]", "]">>, <<"a", "[", "0", "]", ".", "a">>}

Paths == LongPaths \cup UNION {[1..n -> Alphabet] : n \in 0..MaxLen}

\* the paths given to Answer.Path
ChainPaths == {<<>>, <<"a">>, <<"[", "0", "]">>}

Callers == {1, 2}

----------------------------------------------------------------------------
(* State *)

VARIABLES
    build,       \* the revision of ask.go linked in
    source,      \* the data tree the run queries
    path,        \* the path string the sequential run queries
    splitCache,  \* the package variable: path string -> parts
    cachedBy,    \* per path in splitCache, the caller whose call stored it
    answers,     \* what each finished call of For returned, oldest first
    thr,         \* per goroutine: where it is inside For, and For's locals
    writing,     \* goroutines inside an assignment to the plain map of ask.go
    race,        \* an unsynchronized concurrent access to splitCache happened
    fatal,       \* the runtime stopped the process on a concurrent map access
    taken        \* what each call of an extractor returned, oldest first

vars == <<build, source, path, splitCache, cachedBy, answers, thr, writing,
          race, fatal, taken>>

concVars == <<thr, writing, race, fatal>>

Threads == 1..MaxThreads

Idle == [pc |-> "idle", path |-> <<>>, hit |-> FALSE, parts |-> <<>>]

\* the record of a finished call For(src, p) made by c: whether p was found
\* in splitCache and who had stored it, the parts walked, and the outcome
Answer(via, c, src, p, hit, by, parts, out) ==
    [via |-> via, caller |-> c, source |-> src, path |-> p, hit |-> hit,
     cachedBy |-> by,
     parts |-> parts, value |-> out.value, panicked |-> out.panicked,
     trace |-> out.trace]

Init ==
    /\ build \in Builds
    /\ source \in Roots
    /\ path \in Paths
    /\ splitCache = <<>>
    /\ cachedBy = <<>>
    /\ answers = <<>>
    /\ thr = [t \in Threads |-> Idle]
    /\ writing = {}
    /\ race = FALSE
    /\ fatal = FALSE
    /\ taken = <<>>

\* a store that keeps the first part only
cacheStore_firstPart(cache, p, parts) ==
    (p :> IF parts = <<>> THEN parts ELSE <<Head(parts)>>) @@ cache

\* splitCache.Store(path, parts), splitCache[path] = parts
cacheStore(cache, p, parts) == (p :> parts) @@ cache

\* the body of For(src, p) called by c, directly or through Path, and run to
\* its return (or panic), no other call running meanwhile
ForBody(via, c, src, p) ==
    LET ok == p \in DOMAIN splitCache
        parts == IF ok THEN splitCache[p] ELSE tokenize(build, p)
    IN  /\ splitCache' = IF ok THEN splitCache ELSE cacheStore(splitCache, p, parts)
        /\ cachedBy' = IF ok THEN cachedBy ELSE (p :> c) @@ cachedBy
        /\ answers' = Append(answers,
                             Answer(via, c, src, p, ok, IF ok THEN cachedBy[p] ELSE 0,
                                    parts, walk(build, src, parts)))

\* For(source, path)
For(c) ==
    /\ Len(answers) < MaxCalls
    /\ ForBody("For", c, source, path)
    /\ UNCHANGED <<build, source, path, taken, concVars>>

\* answers[n].Path(p): For on the value the earlier Answer holds, by the
\* caller that holds it
Path(n, p) ==
    /\ Len(answers) < MaxCalls
    /\ ~answers[n].panicked
    /\ ForBody("Path", answers[n].caller, answers[n].value, p)
    /\ UNCHANGED <<build, source, path, taken, concVars>>

Next ==
    \/ \E c \in Callers : For(c)
    \/ \E n \in 1..Len(answers) : \E p \in ChainPaths : Path(n, p)

Spec == Init /\ [][Next]_vars

----------------------------------------------------------------------------
(* Concurrent callers of For: the steps of For between its accesses to      *)
(* splitCache                                                               *)

\* the paths and the tree the goroutines query
ConcPaths == {<<"a">>, <<"a", "[", "0", "]">>}

ConcRoots == {RootTest}

\* calls begun so far
Started == Len(answers) + Cardinality({t \in Threads : thr[t].pc # "idle"})

InitConc ==
    /\ build \in Builds
    /\ source \in ConcRoots
    /\ path = <<>>
    /\ splitCache = <<>>
    /\ cachedBy = <<>>
    /\ answers = <<>>
    /\ thr = [t \in Threads |-> Idle]
    /\ writing = {}
    /\ race = FALSE
    /\ fatal = FALSE
    /\ taken = <<>>

\* thread t after the lookup of p in splitCache gave (ok, parts)
Looked(t, p, ok, parts) ==
    [thr EXCEPT ![t] = [pc |-> IF ok THEN "walk" ELSE "store", path |-> p,
                        hit |-> ok,
                        parts |-> IF ok THEN parts ELSE tokenize(build, p)]]

\* part_000 line 138, part_001 line 21: splitCache.Load(path) on the sync.Map,
\* and the tokenizePath that follows a miss
Load(t, p) ==
    /\ build \in {"p000", "p001"}
    /\ thr[t].pc = "idle"
    /\ Started < MaxCalls
    /\ thr' = Looked(t, p, p \in DOMAIN splitCache,
                     IF p \in DOMAIN splitCache THEN splitCache[p] ELSE <<>>)
    /\ UNCHANGED <<build, source, path, taken, splitCache, cachedBy, answers, writing,
                   race, fatal>>

\* part_000 line 144, part_001 line 27: splitCache.Store(path, parts)
Store(t) ==
    /\ build \in {"p000", "p001"}
    /\ thr[t].pc = "store"
    /\ splitCache' = cacheStore(splitCache, thr[t].path, thr[t].parts)
    /\ cachedBy' = (thr[t].path :> t) @@ cachedBy
    /\ thr' = [thr EXCEPT ![t].pc = "walk"]
    /\ UNCHANGED <<build, source, path, taken, answers, writing, race, fatal>>

\* what a read of the plain map may find while another goroutine assigns to
\* it: any stored parts, or those being stored
Torn == {splitCache[q] : q \in DOMAIN splitCache}
            \cup {thr[w].parts : w \in writing}

\* ask.go line 26: parts, ok := splitCache[path] on the plain map, and the
\* strings.Split that follows a miss.  A read during another goroutine's
\* assignment is a data race: the runtime stops the process, or the read
\* returns whatever it finds
MapRead(t, p) ==
    /\ build = "ask"
    /\ ~fatal
    /\ thr[t].pc = "idle"
    /\ Started < MaxCalls
    /\ IF writing = {}
       THEN /\ thr' = Looked(t, p, p \in DOMAIN splitCache,
                             IF p \in DOMAIN splitCache THEN splitCache[p] ELSE <<>>)
            /\ UNCHANGED <<race, fatal>>
       ELSE /\ race' = TRUE
            /\ \/ fatal' = TRUE /\ UNCHANGED thr
               \/ /\ thr' = Looked(t, p, FALSE, <<>>)
                  /\ UNCHANGED fatal
               \/ /\ \E parts \in Torn : thr' = Looked(t, p, TRUE, parts)
                  /\ UNCHANGED fatal
    /\ UNCHANGED <<build, source, path, taken, splitCache, cachedBy, answers, writing>>

\* ask.go line 29: splitCache[path] = parts begins.  Beginning while another
\* goroutine assigns is a data race on the map's buckets, for this assignment
\* and for those in progress: the runtime stops the process, or not
MapAssignBegin(t) ==
    /\ build = "ask"
    /\ ~fatal
    /\ thr[t].pc = "store"
    /\ writing' = writing \cup {t}
    /\ IF writing = {}
       THEN /\ thr' = [thr EXCEPT ![t].pc = "storing"]
            /\ UNCHANGED <<race, fatal>>
       ELSE /\ thr' = [u \in Threads |->
                          IF u \in writing \cup {t}
                          THEN [thr[u] EXCEPT !.pc = "racing"] ELSE thr[u]]
            /\ race' = TRUE
            /\ fatal' \in BOOLEAN
    /\ UNCHANGED <<build, source, path, taken, splitCache, cachedBy, answers>>

\* what an assignment that raced with another may leave under its key: its
\* own parts, or those of an assignment it raced with
Raced(t) == {thr[t].parts} \cup {thr[w].parts : w \in writing}

\* ask.go line 29: the assignment is complete.  One that raced with another
\* has stored its parts, or its entry is lost in the other's write, or the
\* slot holds its key with the other's parts
MapAssignEnd(t) ==
    /\ build = "ask"
    /\ ~fatal
    /\ thr[t].pc \in {"storing", "racing"}
    /\ IF thr[t].pc = "storing"
       THEN /\ splitCache' = cacheStore(splitCache, thr[t].path, thr[t].parts)
            /\ cachedBy' = (thr[t].path :> t) @@ cachedBy
       ELSE \/ /\ \E parts \in Raced(t) :
                      splitCache' = cacheStore(splitCache, thr[t].path, parts)
               /\ cachedBy' = (thr[t].path :> t) @@ cachedBy
            \/ UNCHANGED <<splitCache, cachedBy>>
    /\ writing' = writing \ {t}
    /\ thr' = [thr EXCEPT ![t].pc = "walk"]
    /\ UNCHANGED <<build, source, path, taken, answers, race, fatal>>

\* the loop of For and its return: no shared state is touched
Walk(t) ==
    /\ ~fatal
    /\ thr[t].pc = "walk"
    /\ answers' = Append(answers,
                         Answer("For", t, source, thr[t].path, thr[t].hit, 0,
                                thr[t].parts, walk(build, source, thr[t].parts)))
    /\ thr' = [thr EXCEPT ![t] = Idle]
    /\ UNCHANGED <<build, source, path, taken, splitCache, cachedBy, writing, race, fatal>>

NextConc ==
    \E t \in Threads :
        \/ \E p \in ConcPaths : Load(t, p)
        \/ Store(t)
        \/ \E p \in ConcPaths : MapRead(t, p)
        \/ MapAssignBegin(t)
        \/ MapAssignEnd(t)
        \/ Walk(t)

SpecConc == InitConc /\ [][NextConc]_vars

----------------------------------------------------------------------------
(* Extractor calls on an Answer: For(source, "") holds the source itself,   *)
(* and each extractor is called on it with each default                     *)

\* the values of the floats the Answer holds, as twice the value: below and
\* at the least int64, fractions on both sides of zero, 1<<63, 1<<64, above
FloatHalves ==
    {-4 * Pow2(WordBits), 2 * MinInt64, -3, -1, 0, 1, 3,
     2 * (MaxInt64 + 1), 2 * (MaxUint64 + 1), 4 * Pow2(WordBits)}

\* the values the Answer holds: the kinds of value of the test sources
Holdings ==
    {Nil, GoStr(<<>>), GoStr(<<"s">>), GoStr(<<"1">>), GoBool(TRUE), GoBool(FALSE)}
    \cup {GoNum(t, x) : t \in SignedTypes, x \in {-1, 0, 1}}
    \cup {GoNum(t, MinOf(t)) : t \in SignedTypes}
    \cup {GoNum(t, MaxOf(t)) : t \in SignedTypes \cup UnsignedTypes}
    \cup {GoNum(t, x) : t \in UnsignedTypes, x \in {0, 1}}
    \cup {GoNum(t, x) : t \in {"uint", "uint64"}, x \in {MaxInt64, MaxInt64 + 1}}
    \cup {GoFloat(t, x) : t \in FloatTypes, x \in FloatHalves}
    \cup {RootTest, RootMapString, RootMapInt, RootIntKeys, RootAnyKeys,
          RootNamedMap, RootSlice, RootInts, RootArray, RootNamedSlice,
          RootGrid.m[ka], SliceOf("[]interface{}", <<>>),
          MapOf("map[string]interface{}", <<>>)}

\* the defaults given to the extractor named f
Defaults(f) ==
    CASE f = "String" -> {GoStr(<<>>), GoStr(<<"d">>)}
      [] f = "Bool"   -> {GoBool(TRUE), GoBool(FALSE)}
      [] f = "Int"    -> {Int64(5), Int64(-1)}
      [] f = "Uint"   -> {Uint64(5), Uint64(0)}
      [] f = "Float"  -> {GoFloat("float64", 0), GoFloat("float64", 3)}
      [] f = "Slice"  -> {SliceOf("[]interface{}", <<>>),
                          SliceOf("[]interface{}", <<GoStr(<<"d">>)>>)}
      [] f = "Map"    -> {MapOf("map[string]interface{}", <<>>),
                          MapOf("map[string]interface{}", (ka :> GoStr(<<"d">>)))}

\* the record of a finished call of the extractor f with default d on an
\* Answer holding v
Taken(f, v, d, r) ==
    [f |-> f, value |-> v, def |-> d, val |-> r.val, ok |-> r.ok, made |-> r.made]

\* For(source, "") has returned
InitExtract ==
    /\ build \in Builds
    /\ source \in Holdings
    /\ path = <<>>
    /\ splitCache = cacheStore(<<>>, <<>>, tokenize(build, <<>>))
    /\ cachedBy = (<<>> :> 1)
    /\ answers = << Answer("For", 1, source, <<>>, FALSE, 0, tokenize(build, <<>>),
                            walk(build, source, tokenize(build, <<>>))) >>
    /\ thr = [t \in Threads |-> Idle]
    /\ writing = {}
    /\ race = FALSE
    /\ fatal = FALSE
    /\ taken = <<>>

\* answers[n].f(d) for the extractor named f
Call(f, n, d) ==
    /\ Len(taken) < MaxTaken
    /\ ~answers[n].panicked
    /\ \E r \in extract(build, f, answers[n].value, d) :
          taken' = Append(taken, Taken(f, answers[n].value, d, r))
    /\ UNCHANGED <<build, source, path, splitCache, cachedBy, answers, concVars>>

AnswerString(n, d) == Call("String", n, d)

AnswerBool(n, d) == Call("Bool", n, d)

AnswerInt(n, d) == Call("Int", n, d)

AnswerUint(n, d) == Call("Uint", n, d)

AnswerFloat(n, d) == Call("Float", n, d)

AnswerSlice(n, d) == Call("Slice", n, d)

AnswerMap(n, d) == Call("Map", n, d)

NextExtract ==
    \E n \in 1..Len(answers) :
        \/ \E d \in Defaults("String") : AnswerString(n, d)
        \/ \E d \in Defaults("Bool") : AnswerBool(n, d)
        \/ \E d \in Defaults("Int") : AnswerInt(n, d)
        \/ \E d \in Defaults("Uint") : AnswerUint(n, d)
        \/ \E d \in Defaults("Float") : AnswerFloat(n, d)
        \/ \E d \in Defaults("Slice") : AnswerSlice(n, d)
        \/ \E d \in Defaults("Map") : AnswerMap(n, d)

SpecExtract == InitExtract /\ [][NextExtract]_vars

----------------------------------------------------------------------------
(* Queries and extractions mixed: For and Path on a tree, the extractors on *)
(* the Answers they return                                                  *)

FrameRoots == {RootGrid, RootAnyKeys}

FramePaths == {<<>>, <<"a">>}

InitFrame ==
    /\ build \in Builds
    /\ source \in FrameRoots
    /\ path \in FramePaths
    /\ splitCache = <<>>
    /\ cachedBy = <<>>
    /\ answers = <<>>
    /\ thr = [t \in Threads |-> Idle]
    /\ writing = {}
    /\ race = FALSE
    /\ fatal = FALSE
    /\ taken = <<>>

NextFrame == Next \/ NextExtract

SpecFrame == InitFrame /\ [][NextFrame]_vars

----------------------------------------------------------------------------
(* Vocabulary of the properties *)

IsMapShaped(v) == v.t \in MapTypes

IsSeqShaped(v) == v.t \in SliceTypes \cup ArrayTypes

\* the map v has an entry for the string key
HasEntry(v, key) ==
    /\ IsMapShaped(v)
    /\ CASE KeyType(v.t) = "string"      -> key \in DOMAIN v.m
         [] KeyType(v.t) = "interface{}" -> GoStr(key) \in DOMAIN v.m
         [] OTHER                        -> FALSE

\* the index an accessSlice step was given, as a number
StepIndex(st) == IF build = "ask" THEN Atoi(st.arg) ELSE st.arg

\* Answer.Exists()
Exists(a) == a.value # Nil

\* the finished calls
Calls == {answers[n] : n \in 1..Len(answers)}

----------------------------------------------------------------------------
(* C1 *)

\* C1: whenever the walk applies a Key token to a value that is not
\* map-shaped, or to a map without an entry for that key, the Answer is
\* absent (Value() nil, Exists() false) and that access is the last one made.
C1_MissingKeyIsAbsent ==
    \A a \in Calls : \A k \in 1..Len(a.trace) :
        (a.trace[k].op = "accessMap" /\ ~HasEntry(a.trace[k].on, a.trace[k].arg))
            => (a.value = Nil /\ ~Exists(a) /\ k = Len(a.trace))

\* a Key token was applied to a map that lacks the key
C1_Witness ==
    \E a \in Calls : \E k \in 1..Len(a.trace) :
        /\ a.trace[k].op = "accessMap"
        /\ IsMapShaped(a.trace[k].on)
        /\ ~HasEntry(a.trace[k].on, a.trace[k].arg)

----------------------------------------------------------------------------
(* C2 *)

\* C2: whenever the walk applies an Index token, then if the value is
\* sequence-shaped and the index is in range the access yields exactly the
\* element at that position, and otherwise the Answer is absent and the access
\* is the last one made.
C2_IndexInRangeOrAbsent ==
    \A a \in Calls : \A k \in 1..Len(a.trace) :
        a.trace[k].op = "accessSlice" =>
            LET st == a.trace[k]
                i  == StepIndex(st)
            IN  IF IsSeqShaped(st.on) /\ i >= 0 /\ i < Len(st.on.e)
                THEN st.out = st.on.e[i + 1]
                ELSE a.value = Nil /\ k = Len(a.trace)

\* an in-range Index token was applied to a sequence of a concrete element type
C2_Witness ==
    \E a \in Calls : \E k \in 1..Len(a.trace) :
        /\ a.trace[k].op = "accessSlice"
        /\ a.trace[k].on.t \in {"[]int", "[][]int"}
        /\ StepIndex(a.trace[k]) >= 0
        /\ StepIndex(a.trace[k]) < Len(a.trace[k].on.e)

----------------------------------------------------------------------------
(* C3 *)

\* the text of the bracket opened at position i of p: up to the next "]"
BracketText(p, i) == SubSeq(p, i + 1, scanTo(p, i + 1, {"]"}) - 1)

\* the bracket opened at position i of p is unterminated, or its content,
\* trimmed, is not a run of decimal digits
BadBracket(p, i) ==
    /\ p[i] = "["
    /\ \/ scanTo(p, i + 1, {"]"}) > Len(p)
       \/ TrimSpace(BracketText(p, i)) = <<>>
       \/ ~AllDigits(TrimSpace(BracketText(p, i)))

Malformed(p) == \E i \in 1..Len(p) : BadBracket(p, i)

\* C3: For on a path holding a bracket whose content is not a non-negative
\* decimal integer, or an unterminated bracket, returns an absent Answer: it
\* does not panic and returns no value.
C3_MalformedBracketIsAbsent ==
    \A a \in Calls : Malformed(a.path) => (~a.panicked /\ a.value = Nil)

\* For was called with a malformed path on a container
C3_Witness ==
    \E a \in Calls :
        Malformed(a.path) /\ (IsMapShaped(a.source) \/ IsSeqShaped(a.source))

----------------------------------------------------------------------------
(* C4 *)

\* C4: For(root, "") and Path("") return an Answer whose Value() is the value
\* queried, unchanged, and whose Exists() is true exactly when that value is
\* not nil.
C4_EmptyPathIsIdentity ==
    \A a \in Calls :
        a.path = <<>> =>
            /\ ~a.panicked
            /\ a.value = a.source
            /\ (Exists(a) <=> a.source # Nil)

\* Path("") was called on an Answer that holds a sequence found below the root
C4_Witness ==
    \E a \in Calls :
        /\ a.via = "Path"
        /\ a.path = <<>>
        /\ a.source # source
        /\ IsSeqShaped(a.source)
        /\ a.value = a.source

----------------------------------------------------------------------------
(* C5 *)

KeyChars(k) == k # <<>> /\ \A i \in 1..Len(k) : k[i] \notin {".", "[", "]", " ", "\t"}

\* p is key[i][j] for one-digit i and j
TwoBrackets(p) ==
    /\ Len(p) >= 7
    /\ KeyChars(SubSeq(p, 1, Len(p) - 6)) /\ ~AtoiOk(SubSeq(p, 1, Len(p) - 6))
    /\ p[Len(p) - 5] = "[" /\ p[Len(p) - 4] \in Digits /\ p[Len(p) - 3] = "]"
    /\ p[Len(p) - 2] = "[" /\ p[Len(p) - 1] \in Digits /\ p[Len(p)] = "]"

\* element j of element i of root[key], when root is a string-keyed map
\* holding under key a sequence of sequences with i and j in range
HasNested(root, key, i, j) ==
    /\ IsMapShaped(root) /\ KeyType(root.t) = "string" /\ key \in DOMAIN root.m
    /\ IsSeqShaped(root.m[key]) /\ i < Len(root.m[key].e)
    /\ IsSeqShaped(root.m[key].e[i + 1]) /\ j < Len(root.m[key].e[i + 1].e)

\* C5: For(root, "k[i][j]") is element j of element i of root[k], for every
\* nested sequence and every in-range i and j.
C5_AdjacentBracketsNest ==
    \A a \in Calls :
        TwoBrackets(a.path) =>
            LET key == SubSeq(a.path, 1, Len(a.path) - 6)
                i   == DigitVal(a.path[Len(a.path) - 4])
                j   == DigitVal(a.path[Len(a.path) - 1])
            IN  HasNested(a.source, key, i, j)
                    => a.value = a.source.m[key].e[i + 1].e[j + 1]

\* For was called with k[i][j] on a map holding a sequence of sequences
C5_Witness ==
    \E a \in Calls :
        /\ TwoBrackets(a.path)
        /\ HasNested(a.source, SubSeq(a.path, 1, Len(a.path) - 6),
                     DigitVal(a.path[Len(a.path) - 4]),
                     DigitVal(a.path[Len(a.path) - 1]))

----------------------------------------------------------------------------
(* C6 *)

\* no bracket occurs in p
Bare(p) == \A i \in 1..Len(p) : p[i] \notin {"[", "]"}

NonEmpty(seg) == seg # <<>>

\* the dot-delimited segments of p, each without its surrounding whitespace,
\* the empty ones left out
TrimmedSegments(p) ==
    SelectSeq([i \in 1..Len(Split(p, ".")) |-> TrimSpace(Split(p, ".")[i])],
              NonEmpty)

\* C6: for a path of bare segments the tokens are exactly the segments with
\* their surrounding whitespace removed and their interior kept, in order, a
\* segment that is empty after trimming giving no token.
C6_BareSegmentsAreKeys ==
    \A a \in Calls :
        Bare(a.path) => tokens(build, a.parts) = TrimmedSegments(a.path)

\* a bare path with interior whitespace, an empty segment or surrounding
\* whitespace was tokenized
C6_Witness ==
    \E a \in Calls :
        /\ Bare(a.path)
        /\ ~a.hit
        /\ a.path \in {<<"a", " ", "a">>, <<"a", ".", ".", "a">>, <<" ", "a", " ">>}

----------------------------------------------------------------------------
(* C7 *)

\* C7: every call of For returns normally, whatever the root and the path;
\* a Key lookup on a map whose key type takes no string key returns absent.
C7_NeverPanics ==
    \A a \in Calls : ~a.panicked

\* a Key token was applied to a map keyed by int
C7_Witness ==
    \E a \in Calls : \E k \in 1..Len(a.trace) :
        a.trace[k].op = "accessMap" /\ a.trace[k].on.t = "map[int]string"

----------------------------------------------------------------------------
(* C8 *)

\* the generic counterpart of a container: the same entries or elements, the
\* type map[string]interface{} or []interface{}
Generic(v) == [v EXCEPT !.t = IF IsMapShaped(v) THEN "map[string]interface{}"
                               ELSE "[]interface{}"]

\* a string-keyed map or a sequence whose type is not the generic one
Concrete(v) ==
    \/ IsMapShaped(v) /\ KeyType(v.t) = "string" /\ v.t # "map[string]interface{}"
    \/ IsSeqShaped(v) /\ v.t # "[]interface{}"

\* C8: an access to a container of a concrete non-generic type gives what the
\* same access to its generic counterpart gives: the same element when it is
\* there, absent when it is not.
C8_ConcreteLikeGeneric ==
    \A a \in Calls : \A k \in 1..Len(a.trace) :
        LET st == a.trace[k] IN
        /\ (st.op = "accessMap" /\ Concrete(st.on) /\ IsMapShaped(st.on))
              => st.out = accessMap(build, Generic(st.on), st.arg)
        /\ (st.op = "accessSlice" /\ Concrete(st.on) /\ IsSeqShaped(st.on))
              => st.out = accessSlice(build, Generic(st.on), st.arg)

\* a key was looked up in a string-valued or int-valued map that lacks it
C8_Witness ==
    \E a \in Calls : \E k \in 1..Len(a.trace) :
        /\ a.trace[k].op = "accessMap"
        /\ a.trace[k].on.t \in {"map[string]string", "map[string]int"}
        /\ ~HasEntry(a.trace[k].on, a.trace[k].arg)

----------------------------------------------------------------------------
(* C9 *)

\* what the call gives when it runs alone from an empty cache
Alone(src, p) == walk(build, src, tokenize(build, p))

\* C9: concurrent calls of For never access the token cache concurrently
\* without synchronization when one of the accesses is a write, the process
\* is not stopped, and every call returns what the same call returns alone.
C9_NoRaceSameAnswer ==
    /\ ~race
    /\ ~fatal
    /\ \A a \in Calls :
          /\ a.value = Alone(a.source, a.path).value
          /\ a.panicked = Alone(a.source, a.path).panicked

\* two goroutines are inside For at once, one of them about to store
C9_Witness ==
    \E t, u \in Threads :
        t # u /\ thr[t].pc \in {"store", "storing", "racing"} /\ thr[u].pc # "idle"

----------------------------------------------------------------------------
(* C10 *)

\* C10: two calls of For with the same arguments return equal Answers and
\* walk the same token sequence, whether the path was not cached, cached by
\* the caller or cached by another caller.
C10_SameArgumentsSameAnswer ==
    \A m, n \in 1..Len(answers) :
        (answers[m].source = answers[n].source /\ answers[m].path = answers[n].path)
            => /\ answers[m].value = answers[n].value
               /\ answers[m].panicked = answers[n].panicked
               /\ answers[m].parts = answers[n].parts
               /\ answers[m].trace = answers[n].trace

\* a call found the path cached by another caller, after the call that
\* cached it, and both walked at least one token to a value
C10_Witness ==
    \E m, n \in 1..Len(answers) :
        /\ m < n
        /\ answers[m].source = answers[n].source
        /\ answers[m].path = answers[n].path
        /\ ~answers[m].hit
        /\ answers[n].hit
        /\ answers[n].cachedBy # answers[n].caller
        /\ answers[n].value # Nil
        /\ answers[n].trace # <<>>

----------------------------------------------------------------------------
(* C11 *)

\* access k of the call found a null: the accessor's result is nil although
\* the key or index it was given is there
FoundNull(a, k) ==
    /\ a.trace[k].op \in {"accessMap", "accessSlice"}
    /\ a.trace[k].out = Nil
    /\ IF a.trace[k].op = "accessMap"
       THEN HasEntry(a.trace[k].on, a.trace[k].arg)
       ELSE /\ IsSeqShaped(a.trace[k].on)
            /\ StepIndex(a.trace[k]) >= 0
            /\ StepIndex(a.trace[k]) < Len(a.trace[k].on.e)

\* C11: when a step of the walk resolves to null, the walk stops there: that
\* access is the last one made, whatever tokens remain, and the Answer is
\* absent, as it is for a missing key or index.
C11_NullStopsTheWalk ==
    \A a \in Calls : \A k \in 1..Len(a.trace) :
        a.trace[k].out = Nil =>
            (k = Len(a.trace) /\ a.value = Nil /\ ~Exists(a) /\ ~a.panicked)

\* a key that holds null was looked up while tokens remained
C11_Witness ==
    \E a \in Calls : \E k \in 1..Len(a.trace) :
        /\ FoundNull(a, k)
        /\ k < Len(tokens(build, a.parts))

----------------------------------------------------------------------------
(* C12 *)

\* the depth of open brackets after the first n characters of p
RECURSIVE Depth(_, _)
Depth(p, n) == IF n = 0 THEN 0
               ELSE Depth(p, n - 1) + (CASE p[n] = "[" -> 1
                                         [] p[n] = "]" -> -1
                                         [] OTHER -> 0)

\* every bracket of p is closed and none is closed before it is opened
Balanced(p) == Depth(p, Len(p)) = 0 /\ \A n \in 1..Len(p) : Depth(p, n) >= 0

\* answers[n] is f.Path(p2) for the Answer f that answers[m] returned
Chained(m, n) ==
    /\ m < n
    /\ answers[m].via = "For"
    /\ answers[n].via = "Path"
    /\ ~answers[m].panicked
    /\ answers[n].source = answers[m].value

\* C12: For(root, p1).Path(p2) holds the value For(root, p1 + "." + p2) holds,
\* for all paths p1 and p2 with balanced brackets, also when For(root, p1) is
\* absent.
C12_ChainingComposes ==
    \A m, n \in 1..Len(answers) :
        (Chained(m, n) /\ Balanced(answers[m].path) /\ Balanced(answers[n].path))
            => LET whole == Alone(answers[m].source,
                                  answers[m].path \o <<".">> \o answers[n].path)
               IN  /\ answers[n].value = whole.value
                   /\ answers[n].panicked = whole.panicked

\* Path was called with a key or an index on an Answer that For found below
\* the root through a bracketed path, and it found a value
C12_Witness ==
    \E m, n \in 1..Len(answers) :
        /\ Chained(m, n)
        /\ Balanced(answers[m].path) /\ ~Bare(answers[m].path)
        /\ answers[n].path # <<>>
        /\ answers[m].value # answers[m].source
        /\ answers[n].value # Nil

\* Path was called on an absent Answer
C12_WitnessAbsent ==
    \E m, n \in 1..Len(answers) :
        /\ Chained(m, n)
        /\ Balanced(answers[m].path) /\ answers[m].path # <<>>
        /\ answers[m].value = Nil
        /\ answers[n].path # <<>>

----------------------------------------------------------------------------
(* C13 *)

\* C13: every extractor called on an Answer that holds nothing returns the
\* default it was given and ok = false, for every default.
C13_AbsentGivesDefault ==
    \A k \in 1..Len(taken) :
        taken[k].value = Nil => (taken[k].val = taken[k].def /\ ~taken[k].ok)

\* an extractor was called with a default that is not the zero value on an
\* Answer that holds nothing
C13_Witness ==
    \E k \in 1..Len(taken) :
        /\ taken[k].value = Nil
        /\ taken[k].f = "Slice"
        /\ taken[k].def.e # <<>>

----------------------------------------------------------------------------
(* C14 *)

\* C14: String returns (the value, true) when the Answer holds a string and
\* (default, false) for a value of every other type; Bool returns (the value,
\* true) when it holds a boolean and (default, false) for every other type.
C14_StringAndBoolAreExact ==
    \A k \in 1..Len(taken) :
        /\ taken[k].f = "String" =>
              IF taken[k].value.t = "string"
              THEN taken[k].val = taken[k].value /\ taken[k].ok
              ELSE taken[k].val = taken[k].def /\ ~taken[k].ok
        /\ taken[k].f = "Bool" =>
              IF taken[k].value.t = "bool"
              THEN taken[k].val = taken[k].value /\ taken[k].ok
              ELSE taken[k].val = taken[k].def /\ ~taken[k].ok

\* String was called on an Answer that holds a number or a boolean
C14_Witness ==
    \E k \in 1..Len(taken) :
        /\ taken[k].f = "String"
        /\ taken[k].value.t \in SignedTypes \cup FloatTypes \cup {"bool"}

----------------------------------------------------------------------------
(* C15 *)

\* C15: Int on a value of an unsigned integer type returns (default, false)
\* when the value exceeds the greatest int64 and (the value, true) otherwise.
C15_IntOfUnsigned ==
    \A k \in 1..Len(taken) :
        (taken[k].f = "Int" /\ taken[k].value.t \in UnsignedTypes) =>
            IF taken[k].value.i > MaxInt64
            THEN taken[k].val = taken[k].def /\ ~taken[k].ok
            ELSE taken[k].val = Int64(taken[k].value.i) /\ taken[k].ok

\* Int was called on an unsigned value above the greatest int64
C15_Witness ==
    \E k \in 1..Len(taken) :
        /\ taken[k].f = "Int"
        /\ taken[k].value.t \in UnsignedTypes
        /\ taken[k].value.i > MaxInt64

----------------------------------------------------------------------------
(* C16 *)

\* C16: Int on a floating-point value within the range of int64 returns (the
\* value truncated toward zero, true), and Int on no floating-point value
\* returns ok = true with anything but that truncation.
C16_IntOfFloatTruncates ==
    \A k \in 1..Len(taken) :
        (taken[k].f = "Int" /\ taken[k].value.t \in FloatTypes) =>
            LET whole == Trunc(taken[k].value.h) IN
            /\ (whole >= MinInt64 /\ whole <= MaxInt64) => taken[k].ok
            /\ taken[k].ok => taken[k].val = Int64(whole)

\* Int was called on a float with a fraction, and on one beyond int64
C16_Witness ==
    \E k \in 1..Len(taken) :
        /\ taken[k].f = "Int"
        /\ taken[k].value.t \in FloatTypes
        /\ taken[k].value.h \in {-3, 3, 2 * (MaxInt64 + 1)}

----------------------------------------------------------------------------
(* C17 *)

\* C17: Uint returns (default, false) for a negative signed integer of any
\* width and for a negative float, and (the value, true) for every signed or
\* unsigned integer that is not negative.
C17_UintRejectsNegative ==
    \A k \in 1..Len(taken) :
        taken[k].f = "Uint" =>
            /\ taken[k].value.t \in SignedTypes \cup UnsignedTypes =>
                  IF taken[k].value.i < 0
                  THEN taken[k].val = taken[k].def /\ ~taken[k].ok
                  ELSE taken[k].val = Uint64(taken[k].value.i) /\ taken[k].ok
            /\ (taken[k].value.t \in FloatTypes /\ taken[k].value.h < 0) =>
                  (taken[k].val = taken[k].def /\ ~taken[k].ok)

\* Uint was called on a negative integer narrower than int64
C17_Witness ==
    \E k \in 1..Len(taken) :
        /\ taken[k].f = "Uint"
        /\ taken[k].value.t \in {"int8", "int16", "int32"}
        /\ taken[k].value.i < 0

----------------------------------------------------------------------------
(* C18 *)

\* C18: Uint on a floating-point value that is not negative returns ok = true
\* with the value truncated toward zero, and with the greatest uint64 when
\* the value is at or above it.
C18_UintOfFloatClamps ==
    \A k \in 1..Len(taken) :
        (taken[k].f = "Uint" /\ taken[k].value.t \in FloatTypes
                            /\ taken[k].value.h >= 0) =>
            LET whole == Trunc(taken[k].value.h) IN
            /\ taken[k].ok
            /\ taken[k].val = Uint64(IF whole >= MaxUint64 THEN MaxUint64 ELSE whole)

\* Uint was called on a float at or above the greatest uint64
C18_Witness ==
    \E k \in 1..Len(taken) :
        /\ taken[k].f = "Uint"
        /\ taken[k].value.t \in FloatTypes
        /\ Trunc(taken[k].value.h) >= MaxUint64

----------------------------------------------------------------------------
(* C19 *)

\* C19: Slice on a []interface{} returns it with ok = true; on a sequence of
\* another type it returns ok = true and a []interface{} of the same length
\* whose elements are the source's, position by position; on a value that is
\* no sequence it returns (default, false).
C19_SliceOfAnySequence ==
    \A k \in 1..Len(taken) :
        taken[k].f = "Slice" =>
            IF taken[k].value.t = "[]interface{}"
            THEN taken[k].val = taken[k].value /\ taken[k].ok
            ELSE IF IsSeqShaped(taken[k].value)
            THEN /\ taken[k].ok
                 /\ taken[k].val.t = "[]interface{}"
                 /\ Len(taken[k].val.e) = Len(taken[k].value.e)
                 /\ \A x \in 1..Len(taken[k].value.e) :
                       taken[k].val.e[x] = taken[k].value.e[x]
            ELSE taken[k].val = taken[k].def /\ ~taken[k].ok

\* Slice was called on a sequence of a concrete element type
C19_Witness ==
    \E k \in 1..Len(taken) :
        /\ taken[k].f = "Slice"
        /\ taken[k].value.t \in {"[]int", "[][]int", "[2]int"}

----------------------------------------------------------------------------
(* C20 *)

\* the entries of a map whose key is a string
StringEntries(v) ==
    IF KeyType(v.t) = "string" THEN v.m
    ELSE IF KeyType(v.t) = "interface{}"
    THEN [key \in {x.s : x \in {y \in DOMAIN v.m : y.t = "string"}}
             |-> v.m[GoStr(key)]]
    ELSE <<>>

\* C20: Map on a map of any key and value type returns ok = true and a
\* map[string]interface{} holding exactly the source entries whose key is a
\* string, each with its source value; the other entries are left out.
C20_MapOfAnyMap ==
    \A k \in 1..Len(taken) :
        (taken[k].f = "Map" /\ IsMapShaped(taken[k].value)) =>
            /\ taken[k].ok
            /\ taken[k].val.t = "map[string]interface{}"
            /\ taken[k].val.m = StringEntries(taken[k].value)

\* Map was called on a map whose keys are not all strings
C20_Witness ==
    \E k \in 1..Len(taken) :
        /\ taken[k].f = "Map"
        /\ taken[k].value.t \in {"map[int]string", "map[interface{}]interface{}"}

----------------------------------------------------------------------------
(* C21 *)

\* the slices and maps: values that refer to a container.  An array is held
\* by value
RefTypes == MapTypes \cup SliceTypes

\* the elements of a sequence, the values of a map
Elements(v) ==
    IF IsSeqShaped(v) THEN {v.e[x] : x \in 1..Len(v.e)}
    ELSE IF IsMapShaped(v) THEN {v.m[key] : key \in DOMAIN v.m}
    ELSE {}

\* the call returned a container that part_001 and part_000 build by their
\* generic copy: Slice or Map succeeded on a value that is not of the type
\* returned
GenericCopy(tk) ==
    /\ build \in {"p001", "p000"}
    /\ tk.f \in {"Slice", "Map"}
    /\ tk.ok
    /\ tk.value.t \notin {"[]interface{}", "map[string]interface{}"}

\* the result refers to a container of the source: it is the container the
\* extractor was given, or one of its elements is a slice or a map, which
\* the copy loop stores as it reads it (the same backing array, the same map)
SharesContainer(tk) ==
    \/ ~tk.made
    \/ \E x \in Elements(tk.val) : x.t \in RefTypes

\* C21 as stated: a Slice or Map result built by generic copy shares no
\* container with the source.
C21_CopySharesNoContainer ==
    \A k \in 1..Len(taken) :
        GenericCopy(taken[k]) => ~SharesContainer(taken[k])

\* every result built by generic copy is a container the extractor allocated
CopiesAreMade ==
    \A k \in 1..Len(taken) : GenericCopy(taken[k]) => taken[k].made

\* C21, amended: no step of For, Path or an extractor changes the data tree,
\* and the container a Slice or Map generic copy returns is a new one, not
\* the source's; the slices and maps it holds as elements are the source's.
C21_TreeUnchangedCopyIsNew ==
    [][source' = source /\ CopiesAreMade']_vars

\* Slice copied a sequence found below the root by For, whose elements are
\* sequences themselves
C21_Witness ==
    \E k \in 1..Len(taken) :
        /\ GenericCopy(taken[k])
        /\ taken[k].f = "Slice"
        /\ taken[k].value # source
        /\ \E x \in Elements(taken[k].val) : x.t \in RefTypes

----------------------------------------------------------------------------
(* C22 *)

\* the brackets of p hold digits only, each is closed before the next opens,
\* and p has no whitespace: every step of p is plainly written
PlainPath(p) ==
    /\ \A n \in 1..Len(p) : p[n] \notin {" ", "\t"}
    /\ \A n \in 1..Len(p) : Depth(p, n) \in {0, 1}
    /\ Depth(p, Len(p)) = 0
    /\ \A n \in 1..Len(p) :
          p[n] = "[" => (BracketText(p, n) # <<>> /\ AllDigits(BracketText(p, n)))
    /\ \A n \in 1..Len(p) :
          (p[n] = "]" /\ n < Len(p)) => p[n + 1] \in {".", "["}

\* the steps written in a plain path: one for every key, one for every bracket
RECURSIVE StepsWritten(_, _)
StepsWritten(p, n) ==
    IF n = 0 THEN 0
    ELSE StepsWritten(p, n - 1)
         + (IF p[n] = "[" THEN 1
            ELSE IF p[n] \notin {".", "]"} /\ Depth(p, n) = 0
                    /\ (n = 1 \/ p[n - 1] \in {".", "]"})
            THEN 1 ELSE 0)

\* the accesses of the call start at the source, each goes on from the
\* result of the one before, and the Answer holds the result of the last
WalkedThrough(a) ==
    /\ a.trace # <<>> => a.trace[1].on = a.source
    /\ \A k \in 1..(Len(a.trace) - 1) : a.trace[k + 1].on = a.trace[k].out
    /\ a.value = IF a.trace = <<>> THEN a.source ELSE a.trace[Len(a.trace)].out

\* C22: an Answer returned by For is absent, or it holds the value reached
\* after every step written in the path was applied; it never holds a value
\* reached after only some of them.
C22_NoPartialWalk ==
    \A a \in Calls :
        (PlainPath(a.path) /\ ~a.panicked /\ a.value # Nil)
            => (Len(a.trace) = StepsWritten(a.path, Len(a.path)) /\ WalkedThrough(a))

\* For returned a value for a path of at least three steps
C22_Witness ==
    \E a \in Calls :
        /\ PlainPath(a.path)
        /\ a.value # Nil
        /\ StepsWritten(a.path, Len(a.path)) >= 3

----------------------------------------------------------------------------
(* C23 *)

\* the goroutines inside For whose lookup is done
Running == {t \in Threads : thr[t].pc # "idle"}

\* the requests for p, returned or running, that ran the tokenizer
Tokenized(p) ==
    Cardinality({n \in 1..Len(answers) : answers[n].path = p /\ ~answers[n].hit})
        + Cardinality({t \in Running : thr[t].path = p /\ ~thr[t].hit})

\* C23: of the requests for one path string, under any interleaving of
\* concurrent callers of For, only the first runs the tokenizer, and it
\* stores the tokens; every other request returns the stored sequence, the
\* tokenizer's output for the string, without running the tokenizer.
C23_TokenizedOncePerPath ==
    /\ \A p \in ConcPaths : Tokenized(p) <= 1
    /\ \A a \in Calls :
          /\ a.hit => a.parts = tokenize(build, a.path)
          /\ ~a.hit => (a.path \in DOMAIN splitCache /\ splitCache[a.path] = a.parts)
    /\ \A t \in Running : thr[t].hit => thr[t].parts = tokenize(build, thr[t].path)

\* two calls for one path string returned, the first ran the tokenizer and
\* the second found the tokens stored
C23_Witness ==
    \E m, n \in 1..Len(answers) :
        /\ m < n
        /\ answers[m].path = answers[n].path
        /\ ~answers[m].hit
        /\ answers[n].hit
        /\ answers[n].parts = answers[m].parts

----------------------------------------------------------------------------
(* C24 *)

\* every path string in the token cache maps to the tokenizer's output
CacheHoldsTokens ==
    \A p \in DOMAIN splitCache : splitCache[p] = tokenize(build, p)

\* C24: in every state each path string in the token cache maps to exactly
\* the tokenizer's output for it, and no step of any interleaving of
\* concurrent For calls removes an entry or changes its token sequence.
C24_EntriesExactAndStable ==
    [][/\ CacheHoldsTokens'
       /\ \A p \in DOMAIN splitCache :
             p \in DOMAIN splitCache' /\ splitCache'[p] = splitCache[p]]_vars

\* a goroutine is storing a path string that is cached already
C24_Witness ==
    /\ splitCache # <<>>
    /\ \E t \in Threads :
          thr[t].pc \in {"store", "storing", "racing"} /\ thr[t].path \in DOMAIN splitCache

----------------------------------------------------------------------------
(* C25 *)

\* the steps written in the first n characters of the plain path p, in
\* order: a key for each bare segment, an index for each bracket
RECURSIVE Written(_, _)
Written(p, n) ==
    IF n = 0 THEN <<>>
    ELSE Written(p, n - 1)
         \o (IF p[n] = "["
             THEN <<[op |-> "accessSlice", arg |-> Atoi(BracketText(p, n))]>>
             ELSE IF p[n] \notin {".", "]"} /\ Depth(p, n) = 0
                     /\ (n = 1 \/ p[n - 1] \in {".", "]"})
             THEN <<[op |-> "accessMap",
                     arg |-> SubSeq(p, n, scanTo(p, n, {".", "["}) - 1)]>>
             ELSE <<>>)

\* the access st is the one the written step w asks for
AsWritten(st, w) ==
    /\ st.op = w.op
    /\ w.op = "accessMap" => st.arg = w.arg
    /\ w.op = "accessSlice" => StepIndex(st) = w.arg

\* C25: a step of the path is applied as a sequence index if and only if it
\* was written inside brackets: a bare segment, all digits or not, is looked
\* up as the map key it names, and a bracketed number is applied as an index
\* and never looked up as a map key.
C25_IndexIffBracketed ==
    \A a \in Calls :
        PlainPath(a.path)
            => /\ Len(a.trace) <= Len(Written(a.path, Len(a.path)))
               /\ \A k \in 1..Len(a.trace) :
                     AsWritten(a.trace[k], Written(a.path, Len(a.path))[k])

\* a bare all-digit segment was applied to a map that has the digits as a
\* key
C25_Witness ==
    \E a \in Calls :
        /\ Bare(a.path)
        /\ PlainPath(a.path)
        /\ \E k \in 1..Len(a.trace) :
              /\ AllDigits(Written(a.path, Len(a.path))[k].arg)
              /\ HasEntry(a.trace[k].on, Written(a.path, Len(a.path))[k].arg)

====
